---- MODULE Spec2Model ----
(***************************************************************************)
(* A model of CryoCanvasApp (src/src/cryocanvas/app.py): the debounced     *)
(* paint / view events, the single-worker executor that runs fit_model and *)
(* predict, the completion callbacks marshalled to the UI thread, the      *)
(* background-estimation thread, and the array glue (slicing, reshaping,   *)
(* masking, transposing) between the label arrays and the classifier.      *)
(*                                                                         *)
(* An array is a record [shape, data]: data is the C-order (row-major)     *)
(* flattening of the array, as numpy lays it out.                          *)
(***************************************************************************)
EXTENDS Integers, Sequences, FiniteSets, TLC

(***************************************************************************)
(* Bounds of the model.                                                    *)
(***************************************************************************)
MaxLabel == 2
MaxUserActions == 2
MaxClicks == 1
MaxSeed == 0
MaxDim == 3
MaxVoxels == 6
MaxPainted == 2
SkimageWidth == 1
TomotwinWidth == 2

(***************************************************************************)
(* numpy arrays.                                                           *)
(***************************************************************************)
RECURSIVE Prod(_)
Prod(s) == IF s = <<>> THEN 1 ELSE Head(s) * Prod(Tail(s))

RECURSIVE SeqSum(_)
SeqSum(s) == IF s = <<>> THEN 0 ELSE Head(s) + SeqSum(Tail(s))

Arr(shape, data) == [shape |-> shape, data |-> data]

\* a.reshape(shape): the same C-order data under another shape
reshape(a, shape) == Arr(shape, a.data)

\* a.reshape(-1, width)
reshape_rows(a, width) == Arr(<<Len(a.data) \div width, width>>, a.data)

\* a.flatten()
flatten(a) == Arr(<<Len(a.data)>>, a.data)

\* np.squeeze(a): drop the axes of length one
squeeze(a) == Arr(SelectSeq(a.shape, LAMBDA n : n # 1), a.data)

\* a + k, elementwise
add_scalar(a, k) == Arr(a.shape, [i \in 1..Len(a.data) |-> a.data[i] + k])

\* np.transpose(a) of a 3-d array: the axes reversed, out[x, y, z] = a[z, y, x]
transpose(a) ==
    LET Z == a.shape[1]
        Y == a.shape[2]
        X == a.shape[3]
    IN  Arr(<<X, Y, Z>>,
            [k \in 1..(X * Y * Z) |->
                LET x == (k - 1) \div (Y * Z)
                    y == ((k - 1) \div Z) % Y
                    z == (k - 1) % Z
                IN  a.data[(z * Y + y) * X + x + 1]])

\* row i (1-based) of a 2-d array
row(a, i) == SubSeq(a.data, (i - 1) * a.shape[2] + 1, i * a.shape[2])

\* a[mask, :] for a 2-d array a and a boolean vector mask
RECURSIVE masked_rows(_, _, _)
masked_rows(a, mask, i) ==
    IF i > Len(mask) THEN <<>>
    ELSE (IF mask[i] THEN row(a, i) ELSE <<>>) \o masked_rows(a, mask, i + 1)

\* v[mask] for a vector v and a boolean vector mask
RECURSIVE masked(_, _, _)
masked(v, mask, i) ==
    IF i > Len(mask) THEN <<>>
    ELSE (IF mask[i] THEN <<v[i]>> ELSE <<>>) \o masked(v, mask, i + 1)

\* np.concatenate([a, b], axis=1) of two 2-d arrays with the same row count
RECURSIVE concat_rows(_, _, _)
concat_rows(a, b, i) ==
    IF i > a.shape[1] THEN <<>>
    ELSE row(a, i) \o row(b, i) \o concat_rows(a, b, i + 1)

concatenate(list) ==
    IF Len(list) = 1 THEN list[1]
    ELSE Arr(<<list[1].shape[1], list[1].shape[2] + list[2].shape[2]>>,
             concat_rows(list[1], list[2], 1))

\* slice(lo, hi) over an axis of length n, for 0 <= lo, hi: the indices kept
slice(lo, hi, n) ==
    LET top == IF hi < n THEN hi ELSE n
    IN  [lo |-> IF lo < top THEN lo ELSE top, len |-> IF lo < top THEN top - lo ELSE 0]

\* a[mask_idx] for a 3-d or 4-d array and three slices (a trailing feature
\* axis, of width w, is kept whole; w = 1 and no trailing axis for 3-d)
RECURSIVE take(_, _, _, _)
take(a, w, m, k) ==
    LET n == m[1].len * m[2].len * m[3].len * w
    IN  IF k > n THEN <<>>
        ELSE LET f == (k - 1) % w
                 v == (k - 1) \div w
                 x == m[3].lo + (v % m[3].len)
                 y == m[2].lo + ((v \div m[3].len) % m[2].len)
                 z == m[1].lo + (v \div (m[3].len * m[2].len))
             IN  <<a.data[((z * a.shape[2] + y) * a.shape[3] + x) * w + f + 1]>>
                     \o take(a, w, m, k + 1)

getitem3(a, m) == Arr(<<m[1].len, m[2].len, m[3].len>>, take(a, 1, m, 1))

getitem4(a, m) ==
    Arr(<<m[1].len, m[2].len, m[3].len, a.shape[4]>>, take(a, a.shape[4], m, 1))

(***************************************************************************)
(* The data set: the image's shape is image_shape (a variable fixed by     *)
(* Init), and the two precomputed feature arrays are functions of it. The  *)
(* feature values differ from voxel to voxel, so that a value stored at    *)
(* the wrong voxel is visible.                                             *)
(***************************************************************************)
TomotwinValue(i, f) == IF f = 0 THEN i ELSE (i * i + f - 1) % 3
SkimageValue(i, f) == 2 * i + f + 1

feature_data_tomotwin(shape) ==
    Arr(shape \o <<TomotwinWidth>>,
        [k \in 1..(Prod(shape) * TomotwinWidth) |->
            TomotwinValue((k - 1) \div TomotwinWidth, (k - 1) % TomotwinWidth)])

feature_data_skimage(shape) ==
    Arr(shape \o <<SkimageWidth>>,
        [k \in 1..(Prod(shape) * SkimageWidth) |->
            SkimageValue((k - 1) \div SkimageWidth, (k - 1) % SkimageWidth)])

zeros(shape) == Arr(shape, [k \in 1..Prod(shape) |-> 0])

(***************************************************************************)
(* The classifier (scikit-learn / XGBoost), as far as the application sees *)
(* it: fit keeps the training set and a seed (the fit is randomised), and  *)
(* predict answers, for each row, one of the classes of the training set,  *)
(* chosen by the row and the seed. predict fails on a model that is None   *)
(* and on rows whose width is not the training width.                      *)
(***************************************************************************)
None == [fitted |-> FALSE, X |-> Arr(<<0, 0>>, <<>>), y |-> <<>>, seed |-> 0]

clf_fit(X, y, seed) == [fitted |-> TRUE, X |-> X, y |-> y, seed |-> seed]

classes_(clf) == {clf.y[i] : i \in 1..Len(clf.y)}

\* the k-th smallest element of a finite set of integers
kth(S, k) == CHOOSE v \in S : Cardinality({u \in S : u < v}) = k - 1

clf_predict_row(clf, r) ==
    kth(classes_(clf), ((SeqSum(r) + clf.seed) % Cardinality(classes_(clf))) + 1)

clf_can_predict(clf, rows) == clf.fitted /\ rows.shape[2] = clf.X.shape[2]

clf_predict(clf, rows) ==
    Arr(<<rows.shape[1]>>, [i \in 1..rows.shape[1] |-> clf_predict_row(clf, row(rows, i))])

(***************************************************************************)
(* What a job of the executor returns: a value (a model for fit_model, an  *)
(* array for predict) or an exception.                                     *)
(***************************************************************************)
NoArr == Arr(<<>>, <<>>)
Returned(m, a) == [kind |-> "value", model |-> m, arr |-> a]
Raised == [kind |-> "raise", model |-> None, arr |-> NoArr]
Pending == [kind |-> "pending", model |-> None, arr |-> NoArr]

\* a fit_model that trains on every voxel, labeled or not
fit_model_unfiltered(labels, features, model_type, seed) ==
    LET flat == flatten(labels)
        reshaped_features == reshape_rows(features, features.shape[Len(features.shape)])
        filtered_labels == [i \in 1..Len(flat.data) |-> flat.data[i] - 1]
    IN  IF Len(filtered_labels) = 0 THEN Returned(None, NoArr)
        ELSE IF model_type \in {"Random Forest", "XGBoost"}
             THEN Returned(clf_fit(reshaped_features, filtered_labels, seed), NoArr)
        ELSE Raised

\* a fit_model that falls back to a classifier for a choice it does not know
fit_model_fallback(labels, features, model_type, seed) ==
    LET flat == flatten(labels)
        reshaped_features == reshape_rows(features, features.shape[Len(features.shape)])
        valid_labels == [i \in 1..Len(flat.data) |-> flat.data[i] > 0]
        kept == masked_rows(reshaped_features, valid_labels, 1)
        filtered_features ==
            Arr(<<Len(kept) \div reshaped_features.shape[2], reshaped_features.shape[2]>>, kept)
        picked == masked(flat.data, valid_labels, 1)
        filtered_labels == [i \in 1..Len(picked) |-> picked[i] - 1]
    IN  IF Len(filtered_labels) = 0 THEN Returned(None, NoArr)
        ELSE Returned(clf_fit(filtered_features, filtered_labels, seed), NoArr)

\* CryoCanvasApp.fit_model
fit_model(labels, features, model_type, seed) ==
    LET flat == flatten(labels)
        reshaped_features == reshape_rows(features, features.shape[Len(features.shape)])
        valid_labels == [i \in 1..Len(flat.data) |-> flat.data[i] > 0]
        kept == masked_rows(reshaped_features, valid_labels, 1)
        filtered_features ==
            Arr(<<Len(kept) \div reshaped_features.shape[2], reshaped_features.shape[2]>>, kept)
        picked == masked(flat.data, valid_labels, 1)
        filtered_labels == [i \in 1..Len(picked) |-> picked[i] - 1]
    IN  IF Len(filtered_labels) = 0 THEN Returned(None, NoArr)
        ELSE IF model_type = "Random Forest"
             THEN Returned(clf_fit(filtered_features, filtered_labels, seed), NoArr)
        ELSE IF model_type = "XGBoost"
             THEN Returned(clf_fit(filtered_features, filtered_labels, seed), NoArr)
        ELSE Raised

\* a predict that does not shift the classes by one
predict_unshifted(features, model) ==
    LET rows == reshape_rows(features, features.shape[Len(features.shape)])
    IN  IF ~clf_can_predict(model, rows) THEN Raised
        ELSE Returned(None,
                 transpose(reshape(clf_predict(model, rows),
                                   SubSeq(features.shape, 1, Len(features.shape) - 1))))

\* CryoCanvasApp.predict, with self.model read as the job starts
predict(features, model) ==
    LET rows == reshape_rows(features, features.shape[Len(features.shape)])
    IN  IF ~clf_can_predict(model, rows) THEN Raised
        ELSE Returned(None,
                 transpose(add_scalar(
                     reshape(clf_predict(model, rows),
                             SubSeq(features.shape, 1, Len(features.shape) - 1)),
                     1)))

(***************************************************************************)
(* CryoCanvasApp._paint_background_thread: the voxels whose distance from  *)
(* the median embedding is below the first percentile of the distances.    *)
(***************************************************************************)
\* the k-th smallest entry (with multiplicity) of a sequence of integers
kth_entry(s, k) ==
    CHOOSE v \in {s[i] : i \in 1..Len(s)} :
        /\ Cardinality({i \in 1..Len(s) : s[i] < v}) < k
        /\ Cardinality({i \in 1..Len(s) : s[i] <= v}) >= k

\* twice np.median(embedding_data, axis=(0, 1, 2)), per feature
median2(emb) ==
    LET w == emb.shape[4]
        n == Len(emb.data) \div w
        col(f) == [i \in 1..n |-> emb.data[(i - 1) * w + f]]
    IN  [f \in 1..w |-> kth_entry(col(f), (n + 1) \div 2) + kth_entry(col(f), (n + 2) \div 2)]

\* four times the squared distance of every voxel from the median
distances(emb) ==
    LET w == emb.shape[4]
        n == Len(emb.data) \div w
        m == median2(emb)
    IN  [i \in 1..n |->
            SeqSum([f \in 1..w |-> (2 * emb.data[(i - 1) * w + f] - m[f])
                                    * (2 * emb.data[(i - 1) * w + f] - m[f])])]

\* np.where(distances < np.percentile(distances, 1)), as flat voxel indices
\* in increasing order. For 2 to 100 voxels the first percentile lies
\* strictly between the two smallest distances when they differ and equals
\* them when they are equal; for one voxel it is that voxel's distance.
background_indices(emb) ==
    LET d == distances(emb)
        n == Len(d)
        below == IF n < 2 \/ kth_entry(d, 1) = kth_entry(d, 2) THEN {}
                 ELSE {i \in 1..n : d[i] = kth_entry(d, 1)}
    IN  [k \in 1..Cardinality(below) |-> kth(below, k)]

(***************************************************************************)
(* The state of the application.                                           *)
(***************************************************************************)
VARIABLES
    image_shape,        \* self.image_data.shape, (Z, Y, X)
    painting_data,      \* self.painting_data: the painted labels
    prediction_layer,   \* self.get_prediction_layer().data
    model,              \* self.model
    status,             \* self.widget.status
    live_fit,           \* self.widget.live_fit_checkbox
    live_pred,          \* self.widget.live_pred_checkbox
    data_choice,        \* self.widget.data_dropdown
    model_type,         \* self.widget.model_dropdown
    current_step,       \* self.viewer.dims.current_step
    corner_pixels,      \* self.viewer.layers["Image"].corner_pixels
    paint_pending,      \* the debounced on_data_change has a call waiting
    view_pending,       \* the debounced on_view_change has a call waiting
    work_queue,         \* self.executor: the jobs submitted and not started
    worker,             \* self.executor: what each worker thread is running
    ui_queue,           \* done-callbacks marshalled to the main thread, not yet run
    bg,                 \* the threads started by estimate_background
    next_id,            \* the number of jobs submitted so far, plus one
    n_user,             \* how many paint edits, view changes, widget edits and
                        \*   clicks the user has made (bounded)
    call                \* one call of _get_training_features_and_labels on its own

vars == <<image_shape, painting_data, prediction_layer, model, status, live_fit,
          live_pred, data_choice, model_type, current_step, corner_pixels,
          paint_pending, view_pending, work_queue, worker, ui_queue, bg, next_id,
          n_user, call>>

data == <<image_shape, call>>
widgets == <<live_fit, live_pred, data_choice, model_type>>
view == <<current_step, corner_pixels>>
user == <<n_user>>
executor == <<work_queue, worker, next_id>>

\* a pool of two worker threads
max_workers_two == 1 + 1

\* ThreadPoolExecutor(max_workers=1)
max_workers == 1
Workers == 1..max_workers

DataChoices == {"Current Displayed Region", "Whole Image"}
ModelTypes == {"Random Forest", "XGBoost"}

NoJob ==
    [id |-> 0, fn |-> "none", labels |-> NoArr, features |-> NoArr, model_type |-> "",
     live_prediction |-> FALSE, use_skimage_features |-> FALSE, model |-> None,
     result |-> Pending]

(***************************************************************************)
(* Gathering the training data.                                            *)
(***************************************************************************)
\* CryoCanvasApp._get_mask_idx
_get_mask_idx(choice, shape, step, corners) ==
    IF choice = "Whole Image"
    THEN [a \in 1..3 |-> slice(0, shape[a], shape[a])]
    ELSE <<slice(step[1], step[1] + 1, shape[1]),
           slice(corners[1][2], corners[2][2], shape[2]),
           slice(corners[1][3], corners[2][3], shape[3])>>

\* the list both _get_features and _get_training_features_and_labels build
feature_list(shape, mask_idx, use_skimage_features, use_tomotwin_features) ==
    (IF use_skimage_features
     THEN <<reshape_rows(getitem4(feature_data_skimage(shape), mask_idx), SkimageWidth)>>
     ELSE <<>>)
    \o
    (IF use_tomotwin_features
     THEN <<reshape_rows(getitem4(feature_data_tomotwin(shape), mask_idx), TomotwinWidth)>>
     ELSE <<>>)

\* CryoCanvasApp._get_features; <<>> stands for the ValueError
_get_features(shape, mask_idx, use_skimage_features, use_tomotwin_features) ==
    LET features == feature_list(shape, mask_idx, use_skimage_features, use_tomotwin_features)
    IN  IF features # <<>> THEN <<concatenate(features)>> ELSE <<>>

\* CryoCanvasApp._get_active_image_and_labels: the labels it returns
_get_active_labels(painting, mask_idx) == getitem3(painting, mask_idx)

Gathered(f, l) == [kind |-> "value", features |-> f, labels |-> l]
GatherRaised == [kind |-> "raise", features |-> NoArr, labels |-> NoArr]
NotCalled == [kind |-> "pending", features |-> NoArr, labels |-> NoArr]

\* CryoCanvasApp._get_training_features_and_labels
_get_training_features_and_labels(choice, shape, painting, step, corners, use_sk, use_tt) ==
    LET mask_idx == _get_mask_idx(choice, shape, step, corners)
        features == feature_list(shape, mask_idx, use_sk, use_tt)
    IN  IF features = <<>> THEN GatherRaised
        ELSE IF choice = "Current Displayed Region"
        THEN Gathered(
                 _get_features(shape, mask_idx, use_sk,
                               use_tt)[1],
                 squeeze(_get_active_labels(painting, mask_idx)))
        ELSE IF choice = "Whole Image"
        THEN Gathered(
                 IF use_sk THEN feature_data_skimage(shape)
                 ELSE feature_data_tomotwin(shape),
                 squeeze(painting))
        ELSE GatherRaised

\* training_labels.shape == 0 compares a tuple with an int: False in Python,
\* whatever the tuple
tuple_eq_int(t, n) == FALSE

\* np.any(training_labels.shape == 0)
no_training_data(training_labels) == tuple_eq_int(training_labels.shape, 0)

(***************************************************************************)
(* The UI thread: the debounced event handlers.                            *)
(***************************************************************************)
\* on_data_change's two local flags
use_skimage_features == FALSE
use_tomotwin_features == TRUE

\* self.executor.submit(fn, ...) followed by add_done_callback; the callback
\* is taken to be registered before the job ends, so that it is always the
\* worker thread that calls it, and ensure_main_thread queues it
submit(job) ==
    /\ work_queue' = Append(work_queue, [job EXCEPT !.id = next_id])
    /\ next_id' = next_id + 1
    /\ UNCHANGED worker

FitJob(labels, features) ==
    [NoJob EXCEPT !.fn = "fit_model", !.labels = labels, !.features = features,
                  !.model_type = model_type, !.live_prediction = live_pred,
                  !.use_skimage_features = use_skimage_features]

PredictJob(features) == [NoJob EXCEPT !.fn = "predict", !.features = features]

\* the body of CryoCanvasApp.on_data_change
data_change ==
    LET got == _get_training_features_and_labels(
                   data_choice, image_shape, painting_data, current_step, corner_pixels,
                   use_skimage_features, use_tomotwin_features)
    IN  IF got.kind = "raise" THEN UNCHANGED <<status, executor>>
        ELSE IF no_training_data(got.labels) THEN UNCHANGED <<status, executor>>
        ELSE IF live_fit
        THEN /\ status' = "Fitting model ..."
             /\ submit(FitJob(got.labels, got.features))
        ELSE UNCHANGED <<status, executor>>

\* the debounced CryoCanvasApp.on_data_change fires, on the main thread
on_data_change ==
    /\ paint_pending
    /\ paint_pending' = FALSE
    /\ data_change
    /\ UNCHANGED <<data, widgets, view, user, painting_data, prediction_layer, model,
                   view_pending, ui_queue, bg>>

\* the debounced CryoCanvasApp.on_view_change fires, on the main thread
on_view_change ==
    /\ view_pending
    /\ view_pending' = FALSE
    /\ IF data_choice # "Whole Image" THEN data_change ELSE UNCHANGED <<status, executor>>
    /\ UNCHANGED <<data, widgets, view, user, painting_data, prediction_layer, model,
                   paint_pending, ui_queue, bg>>

(***************************************************************************)
(* The executor's worker threads.                                          *)
(***************************************************************************)
\* a worker thread that takes the newest job of the queue
worker_start_newest(w) ==
    /\ worker[w] = NoJob
    /\ work_queue # <<>>
    /\ worker' = [worker EXCEPT ![w] =
                     IF work_queue[Len(work_queue)].fn = "predict"
                     THEN [work_queue[Len(work_queue)] EXCEPT !.model = model]
                     ELSE work_queue[Len(work_queue)]]
    /\ work_queue' = SubSeq(work_queue, 1, Len(work_queue) - 1)
    /\ UNCHANGED <<data, widgets, view, user, painting_data, prediction_layer, model,
                   status, paint_pending, view_pending, ui_queue, bg, next_id>>

\* a worker thread takes the oldest job of the queue; predict reads self.model
worker_start(w) ==
    /\ worker[w] = NoJob
    /\ work_queue # <<>>
    /\ worker' = [worker EXCEPT ![w] =
                     IF Head(work_queue).fn = "predict"
                     THEN [Head(work_queue) EXCEPT !.model = model]
                     ELSE Head(work_queue)]
    /\ work_queue' = Tail(work_queue)
    /\ UNCHANGED <<data, widgets, view, user, painting_data, prediction_layer, model,
                   status, paint_pending, view_pending, ui_queue, bg, next_id>>

run(job, seed) ==
    IF job.fn = "fit_model"
    THEN fit_model(job.labels, job.features, job.model_type, seed)
    ELSE predict(job.features, job.model)

\* the job ends: its future is done and the done-callback, wrapped by
\* ensure_main_thread, is queued to the main thread; the worker is free
worker_finish(w) ==
    /\ worker[w] # NoJob
    /\ \E seed \in 0..MaxSeed :
           ui_queue' = Append(ui_queue, [worker[w] EXCEPT !.result = run(worker[w], seed)])
    /\ worker' = [worker EXCEPT ![w] = NoJob]
    /\ UNCHANGED <<data, widgets, view, user, painting_data, prediction_layer, model,
                   status, paint_pending, view_pending, work_queue, bg, next_id>>

(***************************************************************************)
(* The UI thread: the completion callbacks.                                *)
(***************************************************************************)
\* what on_model_fit assigns to self.model
fitted_model(task) == task.result.model

\* CryoCanvasApp.on_model_fit; task.result() re-raises the job's exception
on_model_fit ==
    /\ ui_queue # <<>>
    /\ Head(ui_queue).fn = "fit_model"
    /\ ui_queue' = Tail(ui_queue)
    /\ LET task == Head(ui_queue)
       IN  IF task.result.kind = "raise"
           THEN UNCHANGED <<model, status, executor>>
           ELSE /\ model' = fitted_model(task)
                /\ IF task.live_prediction /\ model'.fitted
                   THEN /\ status' = "Predicting labels ..."
                        /\ submit(PredictJob(
                               IF task.use_skimage_features
                               THEN feature_data_skimage(image_shape)
                               ELSE feature_data_tomotwin(image_shape)))
                   ELSE UNCHANGED <<status, executor>>
    /\ UNCHANGED <<data, widgets, view, user, painting_data, prediction_layer,
                   paint_pending, view_pending, bg>>

\* an on_prediction that assigns the prediction as it comes
shown_as_returned(prediction) == prediction

\* what on_prediction assigns to the prediction layer's data
shown(prediction) == transpose(prediction)

\* CryoCanvasApp.on_prediction
on_prediction ==
    /\ ui_queue # <<>>
    /\ Head(ui_queue).fn = "predict"
    /\ ui_queue' = Tail(ui_queue)
    /\ LET task == Head(ui_queue)
       IN  IF task.result.kind = "raise"
           THEN UNCHANGED <<prediction_layer, status>>
           ELSE /\ prediction_layer' = shown(task.result.arr)
                /\ status' = "Ready"
    /\ UNCHANGED <<data, widgets, view, user, painting_data, model, executor,
                   paint_pending, view_pending, bg>>

(***************************************************************************)
(* The user: paint edits, view changes, the widget's controls.             *)
(***************************************************************************)
Labels == 0..MaxLabel
Voxels(shape) == 1..Prod(shape)

\* a brush stroke of label l on voxel v; napari then emits the paint event
paint(v, l) ==
    /\ n_user < MaxUserActions
    /\ n_user' = n_user + 1
    /\ painting_data' = [painting_data EXCEPT !.data[v] = l]
    /\ paint_pending' = TRUE
    /\ UNCHANGED <<data, widgets, view, prediction_layer, model,
                   status, view_pending, executor, ui_queue, bg>>

\* the displayed plane and the corners of the displayed rectangle; the
\* rectangle spans the rows, and the columns up to xhi
View(z, xhi, shape) ==
    [step |-> <<z, 0, 0>>, corners |-> <<<<0, 0, 0>>, <<shape[1], shape[2], xhi>>>>]
Views(shape) == {View(z, xhi, shape) : z \in 0..(shape[1] - 1), xhi \in {0, 1, shape[3]}}

\* the camera or the dims change; napari emits the events on_view_change hears
view_change(v) ==
    /\ n_user < MaxUserActions
    /\ n_user' = n_user + 1
    /\ current_step' = v.step
    /\ corner_pixels' = v.corners
    /\ view_pending' = TRUE
    /\ UNCHANGED <<data, widgets, painting_data, prediction_layer,
                   model, status, paint_pending, executor, ui_queue, bg>>

toggled ==
    /\ n_user < MaxUserActions
    /\ n_user' = n_user + 1
    /\ UNCHANGED <<data, view, painting_data, prediction_layer, model,
                   status, paint_pending, view_pending, executor, ui_queue, bg>>

toggle_live_fit ==
    toggled /\ live_fit' = ~live_fit /\ UNCHANGED <<live_pred, data_choice, model_type>>

toggle_live_pred ==
    toggled /\ live_pred' = ~live_pred /\ UNCHANGED <<live_fit, data_choice, model_type>>

select_data(c) ==
    toggled /\ c # data_choice /\ data_choice' = c
            /\ UNCHANGED <<live_fit, live_pred, model_type>>

select_model(m) ==
    toggled /\ m # model_type /\ model_type' = m
            /\ UNCHANGED <<live_fit, live_pred, data_choice>>

(***************************************************************************)
(* Background estimation: one raw thread per click of the button.          *)
(***************************************************************************)
NoThread == [pc |-> "none", indices |-> <<>>, i |-> 0]

\* CryoCanvasApp.estimate_background
estimate_background(t) ==
    /\ bg[t].pc = "none"
    /\ \A u \in 1..(t - 1) : bg[u].pc # "none"
    /\ n_user < MaxUserActions
    /\ n_user' = n_user + 1
    /\ bg' = [bg EXCEPT ![t].pc = "estimating"]
    /\ UNCHANGED <<data, widgets, view, painting_data, prediction_layer, model,
                   status, paint_pending, view_pending, executor, ui_queue>>

\* _paint_background_thread, up to np.where
bg_estimate(t) ==
    /\ bg[t].pc = "estimating"
    /\ bg' = [bg EXCEPT ![t] =
                 [pc |-> "painting",
                  indices |-> background_indices(feature_data_tomotwin(image_shape)),
                  i |-> 0]]
    /\ UNCHANGED <<data, widgets, view, user, painting_data, prediction_layer, model,
                   status, paint_pending, view_pending, executor, ui_queue>>

unlabeled == 1 - 1

background_label == 1

\* one turn of the loop: self.painting_data[indices...[i]] = 1
bg_paint(t) ==
    /\ bg[t].pc = "painting"
    /\ bg[t].i < Len(bg[t].indices)
    /\ painting_data' =
           [painting_data EXCEPT !.data[bg[t].indices[bg[t].i + 1]] = background_label]
    /\ bg' = [bg EXCEPT ![t].i = @ + 1]
    /\ UNCHANGED <<data, widgets, view, user, prediction_layer, model,
                   status, paint_pending, view_pending, executor, ui_queue>>

\* the loop is over: self.get_painting_layer().refresh()
bg_refresh(t) ==
    /\ bg[t].pc = "painting"
    /\ bg[t].i = Len(bg[t].indices)
    /\ bg' = [bg EXCEPT ![t].pc = "done"]
    /\ UNCHANGED <<data, widgets, view, user, painting_data, prediction_layer, model,
                   status, paint_pending, view_pending, executor, ui_queue>>

(***************************************************************************)
(* The application as it runs: one small volume, the widget's defaults.    *)
(***************************************************************************)
MainShape == <<1, 1, 3>>

NoCall == [use_skimage_features |-> FALSE, use_tomotwin_features |-> FALSE,
           ret |-> NotCalled]

Constructed(shape) ==
    /\ image_shape = shape
    /\ prediction_layer = zeros(shape)
    /\ model = None
    /\ status = "Ready"
    /\ view_pending = FALSE
    /\ work_queue = <<>>
    /\ worker = [w \in Workers |-> NoJob]
    /\ ui_queue = <<>>
    /\ bg = [t \in 1..MaxClicks |-> NoThread]
    /\ next_id = 1
    /\ n_user = 0

Init ==
    /\ Constructed(MainShape)
    /\ painting_data = zeros(MainShape)
    /\ live_fit = TRUE
    /\ live_pred = TRUE
    /\ data_choice = "Whole Image"
    /\ model_type = "Random Forest"
    /\ current_step = View(0, MainShape[3], MainShape).step
    /\ corner_pixels = View(0, MainShape[3], MainShape).corners
    /\ paint_pending = FALSE
    /\ call = NoCall

Next ==
    \/ \E v \in Voxels(image_shape), l \in Labels : paint(v, l)
    \/ \E v \in Views(image_shape) : view_change(v)
    \/ toggle_live_fit
    \/ toggle_live_pred
    \/ \E c \in DataChoices : select_data(c)
    \/ \E m \in ModelTypes : select_model(m)
    \/ on_data_change
    \/ on_view_change
    \/ \E w \in Workers : worker_start(w)
    \/ \E w \in Workers : worker_finish(w)
    \/ on_model_fit
    \/ on_prediction
    \/ \E t \in 1..MaxClicks : estimate_background(t)
    \/ \E t \in 1..MaxClicks : bg_estimate(t)
    \/ \E t \in 1..MaxClicks : bg_paint(t)
    \/ \E t \in 1..MaxClicks : bg_refresh(t)

Spec == Init /\ [][Next]_vars

(***************************************************************************)
(* One fit / predict cycle on its own, from one pending paint event, over  *)
(* every small volume, sparse painting, scope, view and algorithm choice   *)
(* (the two of the dropdown and one that fit_model does not know), with a  *)
(* model left by an earlier cycle.                                         *)
(***************************************************************************)
Shapes == {s \in (1..MaxDim) \X (1..MaxDim) \X (1..MaxDim) : Prod(s) <= MaxVoxels}

LabelArrays(shape) ==
    {Arr(shape, d) : d \in {f \in [Voxels(shape) -> Labels] :
                               Cardinality({i \in Voxels(shape) : f[i] > 0}) <= MaxPainted}}

AnyModelTypes == ModelTypes \cup {"Nearest Neighbours"}

\* a model fitted by an earlier cycle, when every voxel was painted 1
EarlierModel(shape) ==
    fit_model(Arr(shape, [i \in Voxels(shape) |-> 1]), feature_data_tomotwin(shape),
              "Random Forest", 0).model

Scoped(shape) ==
    \/ /\ data_choice = "Whole Image"
       /\ current_step = View(0, shape[3], shape).step
       /\ corner_pixels = View(0, shape[3], shape).corners
    \/ /\ data_choice = "Current Displayed Region"
       /\ \E v \in Views(shape) : current_step = v.step /\ corner_pixels = v.corners

InitCycle ==
    \E shape \in Shapes :
        /\ image_shape = shape
        /\ painting_data \in LabelArrays(shape)
        /\ prediction_layer = zeros(shape)
        /\ model = EarlierModel(shape)
        /\ status = "Ready"
        /\ live_fit = TRUE
        /\ live_pred \in BOOLEAN
        /\ model_type \in AnyModelTypes
        /\ Scoped(shape)
        /\ paint_pending = TRUE
        /\ view_pending = FALSE
        /\ work_queue = <<>>
        /\ worker = [w \in Workers |-> NoJob]
        /\ ui_queue = <<>>
        /\ bg = [t \in 1..MaxClicks |-> NoThread]
        /\ next_id = 1
        /\ n_user = 0
        /\ call = NoCall

NextCycle ==
    \/ on_data_change
    \/ \E w \in Workers : worker_start(w)
    \/ \E w \in Workers : worker_finish(w)
    \/ on_model_fit
    \/ on_prediction

SpecCycle == InitCycle /\ [][NextCycle]_vars

(***************************************************************************)
(* _get_training_features_and_labels on its own, over every selection of   *)
(* the two feature sets.                                                   *)
(***************************************************************************)
InitFeatures ==
    \E shape \in Shapes :
        /\ Constructed(shape)
        /\ painting_data = zeros(shape)
        /\ live_fit = TRUE
        /\ live_pred = TRUE
        /\ model_type = "Random Forest"
        /\ Scoped(shape)
        /\ paint_pending = FALSE
        /\ call \in [use_skimage_features : BOOLEAN, use_tomotwin_features : BOOLEAN,
                     ret : {NotCalled}]

get_training_features_and_labels ==
    /\ call.ret = NotCalled
    /\ call' = [call EXCEPT !.ret =
                   _get_training_features_and_labels(
                       data_choice, image_shape, painting_data, current_step,
                       corner_pixels, call.use_skimage_features,
                       call.use_tomotwin_features)]
    /\ UNCHANGED <<image_shape, widgets, view, user, painting_data, prediction_layer,
                   model, status, paint_pending, view_pending, executor, ui_queue, bg>>

NextFeatures == get_training_features_and_labels

SpecFeatures == InitFeatures /\ [][NextFeatures]_vars

(***************************************************************************)
(* Properties.                                                             *)
(***************************************************************************)
Running == {worker[w] : w \in Workers} \ {NoJob}
Queued == {work_queue[k] : k \in 1..Len(work_queue)}
AwaitingCallback == {ui_queue[k] : k \in 1..Len(ui_queue)}

\* C1: in every reachable state at most one job submitted to the executor
\* (fit_model or predict) is executing.
C1_AtMostOneJobExecuting == Cardinality({w \in Workers : worker[w] # NoJob}) <= 1

\* a job is executing while another waits in the executor's queue
C1_Witness == Running # {} /\ Queued # {}

\* C2, as claimed: the fit job of a second event, handled while an earlier
\* fit is in progress, does not execute before the completion callback
\* (on_model_fit) of that earlier fit has run on the UI thread: no fit job
\* executes while the callback of a fit submitted before it is still queued.
C2_SecondFitAfterFirstCallback ==
    \A j \in Running : \A c \in AwaitingCallback :
        ~(j.fn = "fit_model" /\ c.fn = "fit_model" /\ c.id < j.id)

\* C2, as amended: a fit job never executes while a fit submitted before it
\* is still queued or executing; whether the earlier fit's completion
\* callback has run by then is not decided.
C2_SecondFitAfterFirstFitEnds ==
    \A j \in Running : \A e \in Running \cup Queued :
        ~(j.fn = "fit_model" /\ e.fn = "fit_model" /\ e.id < j.id)

\* the second fit is executing and the first fit's callback has not run yet
C2_Witness ==
    \E j \in Running : \E c \in AwaitingCallback :
        j.fn = "fit_model" /\ c.fn = "fit_model" /\ c.id < j.id

\* the label array on_data_change would gather now has a zero-length axis
EmptyTrainingLabels ==
    LET got == _get_training_features_and_labels(
                   data_choice, image_shape, painting_data, current_step, corner_pixels,
                   use_skimage_features, use_tomotwin_features)
    IN  \E a \in 1..Len(got.labels.shape) : got.labels.shape[a] = 0

\* a debounced event is handled in this step
EventHandled ==
    \/ paint_pending /\ ~paint_pending'
    \/ view_pending /\ ~view_pending'

\* C3: a debounced paint or view-change event is a no-op when live-fit is
\* off or the gathered label array is empty: no job is submitted and the
\* status text and the model are unchanged.
C3_NoOpWithoutTrainingData ==
    [][EventHandled /\ (~live_fit \/ EmptyTrainingLabels)
           => UNCHANGED <<status, model, work_queue, next_id>>]_vars

\* C4: when a fit returns None, its completion callback leaves the model as
\* it was.
C4_SkipKeepsModel ==
    [][(/\ ui_queue # <<>>
        /\ ui_queue' = Tail(ui_queue)
        /\ Head(ui_queue).fn = "fit_model"
        /\ Head(ui_queue).result = Returned(None, NoArr))
           => model' = model]_vars

\* the largest painted label a model was trained on
LargestLabel(m) == 1 + kth(classes_(m), Cardinality(classes_(m)))

Values(a) == {a.data[i] : i \in 1..Len(a.data)}

\* C5: predict outputs only values in [1, K], K the largest painted label
\* its model was trained on, and never 0; once a prediction cycle has
\* completed, every voxel of PredictionLabels holds a value in [1, K].
C5_PredictionInRange ==
    /\ [](\A c \in AwaitingCallback :
              c.fn = "predict" /\ c.result.kind = "value"
                  => Values(c.result.arr) \subseteq 1..LargestLabel(c.model))
    /\ [](prediction_layer = zeros(image_shape)
              \/ Values(prediction_layer) \subseteq 1..MaxLabel)
    /\ [][prediction_layer' # prediction_layer
              => /\ ui_queue # <<>>
                 /\ Head(ui_queue).fn = "predict"
                 /\ Values(prediction_layer') \subseteq 1..LargestLabel(Head(ui_queue).model)]_vars

\* a prediction cycle has completed and left both labels in PredictionLabels
C5_Witness == status = "Ready" /\ Values(prediction_layer) = {1, 2}

\* the position in a flattened label array of its k-th labeled voxel
Labeled(L) == {i \in 1..Len(L) : L[i] > 0}
KthLabeled(L, k) ==
    CHOOSE i \in Labeled(L) : Cardinality({j \in Labeled(L) : j < i}) = k - 1

\* the feature vector a feature array holds for the i-th voxel
FeatureVector(features, i) ==
    LET w == features.shape[Len(features.shape)]
    IN  [f \in 1..w |-> features.data[(i - 1) * w + f]]

\* C6: the training set fit passes to the classifier is exactly the voxels
\* with label > 0, in order, each with its own feature vector and with class
\* label - 1; no voxel with label 0 is given to the classifier.
C6_TrainsOnLabeledVoxelsOnly ==
    \A c \in AwaitingCallback :
        c.fn = "fit_model" /\ c.result.kind = "value"
            => LET L == c.labels.data
                   clf == c.result.model
               IN  /\ clf.fitted <=> Labeled(L) # {}
                   /\ clf.fitted =>
                          /\ Len(clf.y) = Cardinality(Labeled(L))
                          /\ clf.X.shape = <<Len(clf.y), Len(FeatureVector(c.features, 1))>>
                          /\ \A k \in 1..Len(clf.y) :
                                 /\ clf.y[k] = L[KthLabeled(L, k)] - 1
                                 /\ row(clf.X, k) = FeatureVector(c.features, KthLabeled(L, k))

\* a fit has returned a model trained on two classes, from a label array
\* that also holds unlabeled voxels
C6_Witness ==
    \E c \in AwaitingCallback :
        /\ c.fn = "fit_model"
        /\ c.result.model.fitted
        /\ classes_(c.result.model) = {0, 1}
        /\ \E i \in 1..Len(c.labels.data) : c.labels.data[i] = 0

\* C7: the array written to PredictionLabels has the volume's shape
\* (Z, Y, X), and its voxel (z, y, x) holds 1 plus the class the model
\* predicts for the feature vector stored at (z, y, x). (In one cycle the
\* model that predicts is the model held afterwards.)
C7_PredictionMatchesVolume ==
    prediction_layer # zeros(image_shape)
        => /\ prediction_layer.shape = image_shape
           /\ \A z \in 0..(image_shape[1] - 1), y \in 0..(image_shape[2] - 1),
                 x \in 0..(image_shape[3] - 1) :
                  LET i == (z * image_shape[2] + y) * image_shape[3] + x
                  IN  prediction_layer.data[i + 1] =
                          1 + clf_predict_row(model,
                                  [f \in 1..TomotwinWidth |-> TomotwinValue(i, f - 1)])

\* a prediction was written for a volume whose three sides differ, and it
\* holds both labels
C7_Witness ==
    /\ Cardinality({image_shape[1], image_shape[2], image_shape[3]}) = 3
    /\ Values(prediction_layer) = {1, 2}
    /\ status = "Ready"

\* a fit called with an algorithm choice other than the two supported ones
UnsupportedFit(c) == c.fn = "fit_model" /\ c.model_type \notin ModelTypes

\* C8, as claimed: a fit called with an unsupported algorithm choice fails
\* with an error, whatever the label array.
C8_UnsupportedAlwaysFails ==
    \A c \in AwaitingCallback : UnsupportedFit(c) => c.result.kind = "raise"

\* C8, as amended: a fit called with an unsupported algorithm choice and a
\* label array with at least one labeled voxel fails with an error (with no
\* labeled voxel it returns None before it looks at the choice); the error
\* aborts the cycle: the completion callback leaves the model as it was and
\* submits no job.
C8_UnsupportedFailsOnLabeledData ==
    /\ [](\A c \in AwaitingCallback :
              UnsupportedFit(c) /\ Labeled(c.labels.data) # {} => c.result.kind = "raise")
    /\ [][(/\ ui_queue # <<>>
           /\ ui_queue' = Tail(ui_queue)
           /\ Head(ui_queue).result.kind = "raise")
              => UNCHANGED <<model, work_queue, worker, next_id>>]_vars

\* the cycle of a failed fit is over: the earlier model is still held and
\* nothing was submitted after the fit
C8_Witness ==
    /\ model_type \notin ModelTypes
    /\ data_choice = "Whole Image"
    /\ Labeled(painting_data.data) # {}
    /\ ~paint_pending
    /\ next_id = 2
    /\ Running = {} /\ Queued = {} /\ AwaitingCallback = {}
    /\ model = EarlierModel(image_shape)

\* the voxels of the mask, as flat positions in the volume, in C order
MaskVoxels(choice, shape, step, corners) ==
    LET m == _get_mask_idx(choice, shape, step, corners)
    IN  [k \in 1..(m[1].len * m[2].len * m[3].len) |->
            LET x == m[3].lo + ((k - 1) % m[3].len)
                y == m[2].lo + (((k - 1) \div m[3].len) % m[2].len)
                z == m[1].lo + ((k - 1) \div (m[3].len * m[2].len))
            IN  (z * shape[2] + y) * shape[3] + x]

\* the selected feature sets' vectors of voxel i, one after the other
SelectedVector(i, use_skimage, use_tomotwin) ==
    (IF use_skimage THEN [f \in 1..SkimageWidth |-> SkimageValue(i, f - 1)] ELSE <<>>)
    \o (IF use_tomotwin THEN [f \in 1..TomotwinWidth |-> TomotwinValue(i, f - 1)] ELSE <<>>)

\* C9: for every scope and every non-empty selection of the two feature
\* sets, the training features gathered are the selected sets concatenated
\* along the feature axis: one feature vector per voxel of the mask, as wide
\* as the selected sets together. (The spatial axes may come flattened or
\* not: fit_model flattens them.)
C9_FeaturesConcatenated ==
    call.ret.kind = "value"
        => LET voxels == MaskVoxels(data_choice, image_shape, current_step, corner_pixels)
               width == (IF call.use_skimage_features THEN SkimageWidth ELSE 0)
                        + (IF call.use_tomotwin_features THEN TomotwinWidth ELSE 0)
               got == call.ret.features
           IN  /\ got.shape[Len(got.shape)] = width
               /\ Len(got.data) = Len(voxels) * width
               /\ \A k \in 1..Len(voxels) :
                      FeatureVector(got, k) =
                          SelectedVector(voxels[k], call.use_skimage_features,
                                         call.use_tomotwin_features)

\* a background-estimation thread takes a step
BackgroundStep(t) == bg'[t] # bg[t] /\ bg[t].pc # "none"

C11_PredictReadsItsOwnModel ==
    /\ [](\A j \in Running : j.fn = "predict" => j.model.fitted)
    /\ [][(\E q \in Queued : q.fn = "predict") => model' = model]_vars

\* nothing is left of the cycle: no debounced event is pending, no job is
\* queued or executing, no completion callback awaits the UI thread
CycleOver ==
    /\ ~paint_pending
    /\ ~view_pending
    /\ Queued = {}
    /\ Running = {}
    /\ AwaitingCallback = {}

\* C12: every cycle returns to Idle visibly. In a cycle started by one
\* data-change event and followed by no other event, once the worker and the
\* UI thread have run everything the event caused (no step of the cycle is
\* left to take, so the status text can no longer change), the status text
\* is "Ready": a status of "Fitting model ..." set by on_data_change has
\* become "Ready" again, whether live-prediction is on or off and whether
\* the fit returned a model, returned None or raised.
C12_CycleReturnsToReady == CycleOver => status = "Ready"

====
